---- MODULE Spec2Model ----
(***************************************************************************)
(* GitHubStars (src/main.py): the planner GitHubStars.make_plan, as main() *)
(* drives it (optionally resuming from a plan read from a file), and the   *)
(* fetcher GitHubStars.fetch.                                              *)
(*                                                                         *)
(* The search service is the environment.  Its data is a table `dist`,     *)
(* score -> number of repositories with that many stars; a count probe or  *)
(* a page request either succeeds, raises RateLimitExceededException, or   *)
(* raises some other Exception.                                            *)
(* Time is counted in tenths of a second.                                  *)
(***************************************************************************)
EXTENDS Integers, Sequences, FiniteSets

\* ------------------------------------------------------------- bounds ----
\* scores 1..NumScores may be populated; every score above is empty
NumScores == 4
\* --start takes a value in 1..MaxStart
MaxStart == 2
\* failures injected into one probe (planner) before it succeeds
MaxFailures == 2

\* failures injected into one fetch call
MaxFetchFailures == 2
\* per_page, a constructor keyword (100 unless given): the size of the
\* pages a listing is fetched in; here a full listing of QUERY_LIMIT items
\* takes two page requests
PerPage == 500

\* ---------------------------------------------------- program constants --
QUERY_LIMIT == 1000
THRESHOLD == 1048576
RateLimitSleep == 600
TransientSleep == 1

\* ------------------------------------------------------- environment -----
Scores == 1..NumScores

\* per-score populations: empty, below the limit, at the limit (a lone
\* value that is committed as is), above twice the limit
Counts == {0, 400, QUERY_LIMIT, 2 * QUERY_LIMIT + 1}

\* totalCount values a listing may report
Totals == {0, 250, QUERY_LIMIT, 1500, 2 * QUERY_LIMIT, 2 * QUERY_LIMIT + 1}

\* plans handed to fetch
FetchPlans == {<<>>, << <<1, 1>> >>, << <<1, 1>>, <<2, 3>> >>}

\* plans main() may read from the --plan file (empty: no --plan given)
PriorPlans == {<<>>, << <<1, 1>> >>, << <<1, 1>>, <<2, 3>> >>}

VARIABLES
    dist,          \* the service's data: score -> population (never changes)
    start_index,   \* self._start_index
    prior,         \* main: the plan read from --plan ([] without it)
    start,         \* make_plan: start
    offset,        \* make_plan: offset
    m,             \* make_plan: m
    plan,          \* make_plan: plan
    skipped,       \* scores reported by "skipping %d - too many results"
    pc,            \* make_plan: "probe" inside the while loop, "done" returned
    rl,            \* RateLimitExceededException caught for the current probe
    tr,            \* other exceptions caught for the current probe
    waited,        \* time slept for the current probe
    mainPlan,      \* main: plan after `plan += stars.make_plan()`
    run,           \* which make_plan call this is (1 or 2)
    firstPlan,     \* what the first make_plan call returned
    fplan,         \* fetch: the plan it was given
    total,         \* totalCount the service reports for each plan entry
    repos,         \* fetch: repos
    fi,            \* fetch: position in the plan (1-based) of the for loop
    fpc,           \* fetch: "asc" / "desc" retry loop, "backoff" (asleep after
                   \* the failed assertion), "returned", "idle"
    page,          \* pages of the current listing already iterated
    frl,           \* RateLimitExceededException caught by fetch
    ftr,           \* other exceptions raised by the service, caught by fetch
    asserted       \* the assert on line 144 has failed

planVars == <<dist, start_index, prior, start, offset, m, plan, skipped, pc,
              rl, tr, waited, mainPlan, run, firstPlan>>

fetchVars == <<fplan, total, repos, fi, fpc, page, frl, ftr, asserted>>

vars == <<planVars, fetchVars>>

\* ----------------------------------------------------------- helpers -----
RECURSIVE SumUpTo(_, _, _)
SumUpTo(d, lo, hi) ==
    IF hi < lo THEN 0 ELSE d[hi] + SumUpTo(d, lo, hi - 1)

Max(a, b) == IF a >= b THEN a ELSE b
Min(a, b) == IF a <= b THEN a ELSE b

\* search_repositories("stars:lo..hi").totalCount against the table d
Count(d, lo, hi) == SumUpTo(d, Max(lo, 1), Min(hi, NumScores))

\* the probe of the current loop iteration
Length == Count(dist, start, start + offset)

Last(s) == s[Len(s)]

\* (variant) planning resumes at the prior plan's last high itself
StartIndexAtLastHigh(p, argStart) == IF p = <<>> THEN argStart ELSE Last(p)[2]

\* main: stars.start_index = plan[-1][1] + 1 when a plan was read
StartIndexOf(p, argStart) == IF p = <<>> THEN argStart ELSE Last(p)[2] + 1

\* fetch has not been called
FetchIdle ==
    /\ fplan = <<>>
    /\ total = <<>>
    /\ repos = <<>>
    /\ fi = 1
    /\ fpc = "idle"
    /\ page = 0
    /\ frl = 0
    /\ ftr = 0
    /\ asserted = FALSE

\* ------------------------------------------------------------- Init ------
Init ==
    /\ dist \in [Scores -> Counts]
    /\ prior \in PriorPlans
    /\ \E s \in 1..MaxStart : start_index = StartIndexOf(prior, s)
    /\ start = start_index
    /\ offset = 0
    /\ m = 1
    /\ plan = <<>>
    /\ skipped = {}
    /\ pc = "probe"
    /\ rl = 0
    /\ tr = 0
    /\ waited = 0
    /\ mainPlan = prior
    /\ run = 1
    /\ firstPlan = <<>>
    /\ FetchIdle

\* ---------------------------------------------------------- make_plan ----
\* (variant) the rate-limit handler sleeps the short interval
ProbeRateLimitedShortSleep ==
    /\ pc = "probe"
    /\ rl + tr < MaxFailures
    /\ rl' = rl + 1
    /\ waited' = waited + TransientSleep
    /\ UNCHANGED <<dist, start_index, prior, start, offset, m, plan, skipped,
                   pc, tr, mainPlan, run, firstPlan>>
    /\ UNCHANGED fetchVars

\* the probe raises RateLimitExceededException: sleep(60); continue
ProbeRateLimited ==
    /\ pc = "probe"
    /\ rl + tr < MaxFailures
    /\ rl' = rl + 1
    /\ waited' = waited + RateLimitSleep
    /\ UNCHANGED <<dist, start_index, prior, start, offset, m, plan, skipped,
                   pc, tr, mainPlan, run, firstPlan>>
    /\ UNCHANGED fetchVars

\* (variant) the handler falls through and the loop body grows the window
ProbeTransientFallsThrough ==
    /\ pc = "probe"
    /\ rl + tr < MaxFailures
    /\ tr' = tr + 1
    /\ waited' = waited + TransientSleep
    /\ offset' = offset + m
    /\ m' = IF m < THRESHOLD THEN m * 2 ELSE m
    /\ UNCHANGED <<dist, start_index, prior, start, plan, skipped,
                   pc, rl, mainPlan, run, firstPlan>>
    /\ UNCHANGED fetchVars

\* (variant) the handler leaves the loop instead of retrying
ProbeTransientGivesUp ==
    /\ pc = "probe"
    /\ rl + tr < MaxFailures
    /\ tr' = tr + 1
    /\ waited' = waited + TransientSleep
    /\ pc' = "gave up"
    /\ UNCHANGED <<dist, start_index, prior, start, offset, m, plan, skipped,
                   rl, mainPlan, run, firstPlan>>
    /\ UNCHANGED fetchVars

\* the probe raises another Exception: sleep(0.1); continue
ProbeTransient ==
    /\ pc = "probe"
    /\ rl + tr < MaxFailures
    /\ tr' = tr + 1
    /\ waited' = waited + TransientSleep
    /\ UNCHANGED <<dist, start_index, prior, start, offset, m, plan, skipped,
                   pc, rl, mainPlan, run, firstPlan>>
    /\ UNCHANGED fetchVars

\* the probe's result is in hand: the failure bookkeeping starts afresh
ProbeUsed == rl' = 0 /\ tr' = 0 /\ waited' = 0

\* (variant) the loop is left on any empty probe
TerminateOnAnyEmpty ==
    /\ pc = "probe"
    /\ Length = 0
    /\ pc' = "done"
    /\ mainPlan' = prior \o plan
    /\ ProbeUsed
    /\ UNCHANGED <<dist, start_index, prior, start, offset, m, plan, skipped,
                   run, firstPlan>>
    /\ UNCHANGED fetchVars

\* if m >= THRESHOLD and length == 0: break; ... return plan
\* (and main: plan += stars.make_plan())
Terminate ==
    /\ pc = "probe"
    /\ m >= THRESHOLD /\ Length = 0
    /\ pc' = "done"
    /\ mainPlan' = prior \o plan
    /\ ProbeUsed
    /\ UNCHANGED <<dist, start_index, prior, start, offset, m, plan, skipped,
                   run, firstPlan>>
    /\ UNCHANGED fetchVars

\* (variant) the window keeps growing at the ceiling
GrowPastThreshold ==
    /\ pc = "probe"
    /\ ~(m >= THRESHOLD /\ Length = 0)
    /\ Length < QUERY_LIMIT
    /\ offset' = offset + m
    /\ m' = m * 2
    /\ ProbeUsed
    /\ UNCHANGED <<dist, start_index, prior, start, plan, skipped, pc,
                   mainPlan, run, firstPlan>>
    /\ UNCHANGED fetchVars

\* if m < THRESHOLD and length < QUERY_LIMIT: offset += m; m *= 2
Grow ==
    /\ pc = "probe"
    /\ ~(m >= THRESHOLD /\ Length = 0)
    /\ m < THRESHOLD /\ Length < QUERY_LIMIT
    /\ offset' = offset + m
    /\ m' = m * 2
    /\ ProbeUsed
    /\ UNCHANGED <<dist, start_index, prior, start, plan, skipped, pc,
                   mainPlan, run, firstPlan>>
    /\ UNCHANGED fetchVars

\* (variant) the oversized value is committed instead of being passed over
SkipCommits ==
    /\ pc = "probe"
    /\ ~(m >= THRESHOLD /\ Length = 0)
    /\ ~(m < THRESHOLD /\ Length < QUERY_LIMIT)
    /\ Length > 2 * QUERY_LIMIT /\ offset = 0
    /\ plan' = Append(plan, <<start, start>>)
    /\ skipped' = skipped \cup {start}
    /\ start' = start + 1
    /\ ProbeUsed
    /\ UNCHANGED <<dist, start_index, prior, offset, m, pc,
                   mainPlan, run, firstPlan>>
    /\ UNCHANGED fetchVars

\* elif length > 2 * QUERY_LIMIT and offset == 0: start += 1
Skip ==
    /\ pc = "probe"
    /\ ~(m >= THRESHOLD /\ Length = 0)
    /\ ~(m < THRESHOLD /\ Length < QUERY_LIMIT)
    /\ Length > 2 * QUERY_LIMIT /\ offset = 0
    /\ skipped' = skipped \cup {start}
    /\ start' = start + 1
    /\ ProbeUsed
    /\ UNCHANGED <<dist, start_index, prior, offset, m, plan, pc,
                   mainPlan, run, firstPlan>>
    /\ UNCHANGED fetchVars

\* (variant) the whole last growth step is taken back
StepWholeM == offset - m

\* step = offset - m // 2
Step == offset - (m \div 2)

\* (variant) start moves one further than the committed high + 1
CommitJumps ==
    /\ pc = "probe"
    /\ ~(m >= THRESHOLD /\ Length = 0)
    /\ ~(m < THRESHOLD /\ Length < QUERY_LIMIT)
    /\ ~(Length > 2 * QUERY_LIMIT /\ offset = 0)
    /\ plan' = Append(plan, <<start, start + Step>>)
    /\ m' = Max(1, m \div 2)
    /\ start' = start + Step + 2
    /\ ProbeUsed
    /\ UNCHANGED <<dist, start_index, prior, offset, skipped, pc,
                   mainPlan, run, firstPlan>>
    /\ UNCHANGED fetchVars

\* (variant) m is halved without the floor of 1
CommitNoFloor ==
    /\ pc = "probe"
    /\ ~(m >= THRESHOLD /\ Length = 0)
    /\ ~(m < THRESHOLD /\ Length < QUERY_LIMIT)
    /\ ~(Length > 2 * QUERY_LIMIT /\ offset = 0)
    /\ plan' = Append(plan, <<start, start + Step>>)
    /\ m' = m \div 2
    /\ start' = start + Step + 1
    /\ ProbeUsed
    /\ UNCHANGED <<dist, start_index, prior, offset, skipped, pc,
                   mainPlan, run, firstPlan>>
    /\ UNCHANGED fetchVars

\* (variant) the window is narrowed to a single value after a commit
CommitResetsOffset ==
    /\ pc = "probe"
    /\ ~(m >= THRESHOLD /\ Length = 0)
    /\ ~(m < THRESHOLD /\ Length < QUERY_LIMIT)
    /\ ~(Length > 2 * QUERY_LIMIT /\ offset = 0)
    /\ plan' = Append(plan, <<start, start + Step>>)
    /\ m' = Max(1, m \div 2)
    /\ start' = start + Step + 1
    /\ offset' = 0
    /\ ProbeUsed
    /\ UNCHANGED <<dist, start_index, prior, skipped, pc,
                   mainPlan, run, firstPlan>>
    /\ UNCHANGED fetchVars

\* else: plan.append((start, start + step)); m = max(1, m // 2);
\*       start += step + 1
Commit ==
    /\ pc = "probe"
    /\ ~(m >= THRESHOLD /\ Length = 0)
    /\ ~(m < THRESHOLD /\ Length < QUERY_LIMIT)
    /\ ~(Length > 2 * QUERY_LIMIT /\ offset = 0)
    /\ plan' = Append(plan, <<start, start + Step>>)
    /\ m' = Max(1, m \div 2)
    /\ start' = start + Step + 1
    /\ ProbeUsed
    /\ UNCHANGED <<dist, start_index, prior, offset, skipped, pc,
                   mainPlan, run, firstPlan>>
    /\ UNCHANGED fetchVars

Next ==
    \/ ProbeRateLimited
    \/ ProbeTransient
    \/ Terminate
    \/ Grow
    \/ Skip
    \/ Commit

Spec == Init /\ [][Next]_vars

\* make_plan keeps running: a loop iteration that can be taken is taken.
\* Each probe fails at most MaxFailures times before it succeeds.
LiveSpec == Init /\ [][Next]_vars /\ WF_vars(Next)

\* ------------------------------------------- make_plan called twice -----
\* a second make_plan() call on the same object: start_index and the data
\* are what they were, the locals are initialised again
Restart ==
    /\ pc = "done"
    /\ run = 1
    /\ run' = 2
    /\ firstPlan' = plan
    /\ start' = start_index
    /\ offset' = 0
    /\ m' = 1
    /\ plan' = <<>>
    /\ skipped' = {}
    /\ pc' = "probe"
    /\ mainPlan' = prior
    /\ UNCHANGED <<dist, start_index, prior, rl, tr, waited>>
    /\ UNCHANGED fetchVars

TwiceNext ==
    \/ Next
    \/ Restart

TwiceSpec == Init /\ [][TwiceNext]_vars

\* ------------------------------------------------------------- fetch -----
\* The items of plan entry i are <<i, k>>, k = 0 .. total[i] - 1 in
\* ascending "updated" order.  A listing yields at most QUERY_LIMIT items
\* (the Search API's limit), a page at a time, and fetches a page when the
\* iteration reaches it.

\* number of items a listing of plan entry i yields
Avail(i) == Min(total[i], QUERY_LIMIT)

\* item at 0-based position j of the listing of entry i in the given order
ItemAt(i, order, j) ==
    IF order = "asc" THEN <<i, j>> ELSE <<i, total[i] - 1 - j>>

\* items at positions from..to of the listing, in listing order
Items(i, order, from, to) ==
    [x \in 1..(to - from + 1) |-> ItemAt(i, order, from + x - 1)]

\* last listing position on page k
PageEnd(i, k) == Min((k + 1) * PerPage, Avail(i)) - 1

\* page k is the listing's last one
LastPage(i, k) == (k + 1) * PerPage >= Avail(i)

\* fetch is entered with a plan; the service's reports are fixed for the call
FetchInit ==
    /\ dist = [s \in Scores |-> 0]
    /\ prior = <<>>
    /\ start_index = 1
    /\ start = 1
    /\ offset = 0
    /\ m = 1
    /\ plan = <<>>
    /\ skipped = {}
    /\ pc = "done"
    /\ rl = 0
    /\ tr = 0
    /\ waited = 0
    /\ run = 1
    /\ firstPlan = <<>>
    /\ fplan \in FetchPlans
    /\ mainPlan = fplan
    /\ total \in [1..Len(fplan) -> Totals]
    /\ repos = <<>>
    /\ fi = 1
    /\ fpc = "asc"
    /\ page = 0
    /\ frl = 0
    /\ ftr = 0
    /\ asserted = FALSE

\* the for loop moves to the next plan entry
NextInterval ==
    /\ fi' = fi + 1
    /\ fpc' = "asc"
    /\ page' = 0

\* (variant) the second pass is also taken at exactly QUERY_LIMIT
AscPageDescOnEqual ==
    /\ fpc = "asc"
    /\ fi <= Len(fplan)
    /\ repos' = repos \o Items(fi, "asc", page * PerPage, PageEnd(fi, page))
    /\ IF LastPage(fi, page)
       THEN IF total[fi] >= QUERY_LIMIT
            THEN fpc' = "desc" /\ page' = 0 /\ fi' = fi
            ELSE NextInterval
       ELSE page' = page + 1 /\ UNCHANGED <<fi, fpc>>
    /\ UNCHANGED <<fplan, total, frl, ftr, asserted>>
    /\ UNCHANGED planVars

\* repos.extend(query), one page of it; after the last page success = True
\* and `if query.totalCount > self.QUERY_LIMIT` picks the second pass
AscPage ==
    /\ fpc = "asc"
    /\ fi <= Len(fplan)
    /\ repos' = repos \o Items(fi, "asc", page * PerPage, PageEnd(fi, page))
    /\ IF LastPage(fi, page)
       THEN IF total[fi] > QUERY_LIMIT
            THEN fpc' = "desc" /\ page' = 0 /\ fi' = fi
            ELSE NextInterval
       ELSE page' = page + 1 /\ UNCHANGED <<fi, fpc>>
    /\ UNCHANGED <<fplan, total, frl, ftr, asserted>>
    /\ UNCHANGED planVars

\* a page request raises RateLimitExceededException: sleep(60); continue.
\* What the listing already put into repos stays; the listing starts over.
ListRateLimited ==
    /\ fpc \in {"asc", "desc"}
    /\ fi <= Len(fplan)
    /\ frl + ftr < MaxFetchFailures
    /\ frl' = frl + 1
    /\ page' = 0
    /\ UNCHANGED <<fplan, total, repos, fi, fpc, ftr, asserted>>
    /\ UNCHANGED planVars

\* a page request raises another Exception: sleep(0.1); continue
ListTransient ==
    /\ fpc \in {"asc", "desc"}
    /\ fi <= Len(fplan)
    /\ frl + ftr < MaxFetchFailures
    /\ ftr' = ftr + 1
    /\ page' = 0
    /\ UNCHANGED <<fplan, total, repos, fi, fpc, frl, asserted>>
    /\ UNCHANGED planVars

\* assert query.totalCount <= self.QUERY_LIMIT * 2 fails; the AssertionError
\* is an Exception, so line 154 catches it and fetch is in sleep(0.1)
DescAssertCaught ==
    /\ fpc = "desc"
    /\ page = 0
    /\ ~(total[fi] <= QUERY_LIMIT * 2)
    /\ asserted' = TRUE
    /\ fpc' = "backoff"
    /\ UNCHANGED <<fplan, total, repos, fi, page, frl, ftr>>
    /\ UNCHANGED planVars

\* the sleep is over: continue, success is still False, and the descending
\* listing is issued again
DescRetry ==
    /\ fpc = "backoff"
    /\ fpc' = "desc"
    /\ UNCHANGED <<fplan, total, repos, fi, page, frl, ftr, asserted>>
    /\ UNCHANGED planVars

\* last listing position the loop on lines 145-148 appends:
\* `if i > query.totalCount - 1000: break` lets i = totalCount - 1000 through
DescLast(i) == total[i] - 1000

\* for i, r in enumerate(query): ... repos.append(r), one page of it
DescPage ==
    /\ fpc = "desc"
    /\ total[fi] <= QUERY_LIMIT * 2
    /\ repos' = repos \o Items(fi, "desc", page * PerPage,
                               Min(PageEnd(fi, page), DescLast(fi)))
    /\ IF PageEnd(fi, page) > DescLast(fi) \/ LastPage(fi, page)
       THEN NextInterval
       ELSE page' = page + 1 /\ UNCHANGED <<fi, fpc>>
    /\ UNCHANGED <<fplan, total, frl, ftr, asserted>>
    /\ UNCHANGED planVars

\* return repos
Return ==
    /\ fpc = "asc"
    /\ fi > Len(fplan)
    /\ fpc' = "returned"
    /\ UNCHANGED <<fplan, total, repos, fi, page, frl, ftr, asserted>>
    /\ UNCHANGED planVars

FetchNext ==
    \/ AscPage
    \/ ListRateLimited
    \/ ListTransient
    \/ DescAssertCaught
    \/ DescRetry
    \/ DescPage
    \/ Return

FetchSpec == FetchInit /\ [][FetchNext]_vars

\* fetch keeps running: a step of its loops that can be taken is taken.
\* At most MaxFetchFailures page requests fail during the call.
FetchLiveSpec == FetchInit /\ [][FetchNext]_vars /\ WF_vars(FetchNext)

\* ------------------------------------------------------- properties -----
\* a loop iteration whose probe succeeded (the failure counters restart)
ResultUsed == pc = "probe" /\ rl' = 0 /\ tr' = 0

\* a loop iteration whose probe raised
ProbeFailed == pc = "probe" /\ rl' + tr' > rl + tr

Ordered(p) ==
    /\ \A i \in 1..Len(p) : p[i][1] <= p[i][2]
    /\ \A i \in 1..(Len(p) - 1) : p[i][2] < p[i + 1][1]

InSomeInterval(p, s) == \E i \in 1..Len(p) : p[i][1] <= s /\ s <= p[i][2]

\* C1: the plan make_plan returns has low <= high in every interval and
\* each interval's low above the previous interval's high.
C1_PlanOrdered == pc = "done" => Ordered(plan)

C1_Witness == pc = "done" /\ Len(plan) >= 3 /\ plan[2][1] < plan[2][2]

\* C2: every interval of the returned plan, counted against the same
\* data, holds at most 2 * QUERY_LIMIT repositories.
C2_IntervalsWithinTwiceLimit ==
    pc = "done" =>
        \A i \in 1..Len(plan) :
            Count(dist, plan[i][1], plan[i][2]) <= 2 * QUERY_LIMIT

\* C6: a failed probe leaves start, offset, m and the plan alone and is
\* issued again; a rate limit costs one 60 s sleep, any other failure one
\* 0.1 s sleep, so the time slept for a probe is 60 s per rate limit plus
\* 0.1 s per other failure (600 and 1 tenths of a second).
C6_RetryKeepsState ==
    /\ [](waited = 600 * rl + tr)
    /\ [][ProbeFailed =>
            /\ UNCHANGED <<start, offset, m, plan, skipped, pc>>
            /\ \/ rl' = rl + 1 /\ tr' = tr /\ waited' = waited + 600
               \/ tr' = tr + 1 /\ rl' = rl /\ waited' = waited + 1]_vars
    /\ [][ResultUsed /\ rl = 1 /\ tr = 0 => waited = 600]_vars

C6_Witness == rl = 1 /\ tr = 0 /\ waited = 600 /\ offset > 0

\* C7: resumed from a non-empty prior plan, main's plan keeps the prior
\* intervals as they were and every new interval starts above the prior
\* plan's last high.
C7_ResumeExtends ==
    (pc = "done" /\ prior # <<>>) =>
        /\ Len(mainPlan) >= Len(prior)
        /\ SubSeq(mainPlan, 1, Len(prior)) = prior
        /\ \A i \in (Len(prior) + 1)..Len(mainPlan) :
               mainPlan[i][1] > Last(prior)[2]

C7_Witness ==
    /\ pc = "done" /\ prior # <<>>
    /\ Len(mainPlan) > Len(prior)
    /\ mainPlan[Len(prior) + 1][1] = Last(prior)[2] + 1

\* C8: a second make_plan run from the same start against the same data
\* returns the plan the first run returned, whatever failures either met.
C8_SamePlanTwice == (run = 2 /\ pc = "done") => plan = firstPlan

C8_Witness == run = 2 /\ pc = "done" /\ Len(plan) >= 2

\* C9: a probe of a single value (offset = 0) counting above
\* 2 * QUERY_LIMIT commits nothing, moves start up by one and goes on
\* probing with offset = 0 and m = 1; no interval of the returned plan
\* contains a skipped value.
C9_SingletonSkipped ==
    /\ [][(ResultUsed /\ offset = 0 /\ Length > 2 * QUERY_LIMIT) =>
            /\ plan' = plan
            /\ start' = start + 1
            /\ skipped' = skipped \cup {start}
            /\ offset' = 0 /\ m' = 1
            /\ pc' = "probe"]_vars
    /\ [](pc = "done" => \A s \in skipped : ~InSomeInterval(plan, s))

C9_Witness == pc = "done" /\ skipped # {} /\ plan # <<>>

\* C10: make_plan leaves its loop exactly on a probe that counts 0 while
\* m >= THRESHOLD; over empty data it returns [] with nothing skipped.
C10_StopsOnlyWhenExhausted ==
    /\ [][(pc = "probe" /\ pc' = "done") =>
            (m >= THRESHOLD /\ Length = 0)]_vars
    /\ [][(ResultUsed /\ m >= THRESHOLD /\ Length = 0) =>
            (pc' = "done" /\ UNCHANGED <<start, offset, m, plan, skipped>>)]_vars
    /\ []((\A s \in Scores : dist[s] = 0) => (plan = <<>> /\ skipped = {}))

C10_Witness ==
    /\ pc = "done" /\ m >= THRESHOLD
    /\ \A s \in Scores : dist[s] = 0

\* number of items fetch has put into repos for plan entry i
Contribution(i) == Cardinality({k \in DOMAIN repos : repos[k][1] = i})

\* C3: when the descending listing reports totalCount > 2 * QUERY_LIMIT,
\* the failed assertion leaves fetch and reaches its caller.
C3_CoverageGapRaised == asserted => fpc = "raised"

\* C4: an entry with QUERY_LIMIT < totalCount <= 2 * QUERY_LIMIT, once
\* fetch is through with it, has contributed at least QUERY_LIMIT and at
\* most totalCount items.
C4_StitchedWithinTotal ==
    \A i \in 1..Len(fplan) :
        (fi > i /\ QUERY_LIMIT < total[i] /\ total[i] <= 2 * QUERY_LIMIT) =>
            (QUERY_LIMIT <= Contribution(i) /\ Contribution(i) <= total[i])

\* C5: an entry with totalCount <= QUERY_LIMIT, once fetch is through with
\* it, has contributed exactly totalCount items, and no descending listing
\* is issued for such an entry, whatever failures came before.
C5_SmallIntervalExact ==
    /\ \A i \in 1..Len(fplan) :
          (fi > i /\ total[i] <= QUERY_LIMIT) => Contribution(i) = total[i]
    /\ (fpc = "desc" => total[fi] > QUERY_LIMIT)

\* C11: in the returned plan the first interval starts at the initial start
\* and each next interval at the previous high + 1, except for values that
\* were skipped as single oversized values; no skipped value is in an
\* interval and no value is in two intervals.
C11_ContiguousOrSkipped ==
    (pc = "done" /\ plan # <<>>) =>
        /\ Ordered(plan)
        /\ plan[1][1] >= start_index
        /\ \A s \in start_index..(plan[1][1] - 1) : s \in skipped
        /\ \A i \in 1..(Len(plan) - 1) :
               \A s \in (plan[i][2] + 1)..(plan[i + 1][1] - 1) : s \in skipped
        /\ \A s \in skipped : ~InSomeInterval(plan, s)

C11_Witness ==
    /\ pc = "done" /\ Len(plan) >= 2
    /\ plan[2][1] = plan[1][2] + 2
    /\ plan[1][2] + 1 \in skipped

\* a loop iteration whose probe succeeded and is neither the break, nor
\* growth, nor a skip
CommitTaken ==
    /\ ResultUsed
    /\ ~(m >= THRESHOLD /\ Length = 0)
    /\ ~(m < THRESHOLD /\ Length < QUERY_LIMIT)
    /\ ~(Length > 2 * QUERY_LIMIT /\ offset = 0)

\* what a commit does to plan, m and start
CommitEffect ==
    /\ plan' = Append(plan, <<start, start + (offset - (m \div 2))>>)
    /\ m' = Max(1, m \div 2)
    /\ start' = start + (offset - (m \div 2)) + 1
    /\ pc' = "probe"

\* C12 (as stated): a commit appends (start, start + step) with
\* step = offset - m // 2, sets m to max(1, m // 2), moves start by
\* step + 1 and resets offset to 0, so the next probe is [start, start].
C12_CommitResetsOffset ==
    [][CommitTaken => (CommitEffect /\ offset' = 0)]_vars

\* C12 (amended): a commit appends (start, start + step) with
\* step = offset - m // 2, sets m to max(1, m // 2), moves start by
\* step + 1 and leaves offset as it is, so the next probe is
\* [start, start + offset], as wide as the last one.
C12_CommitKeepsOffset ==
    [][CommitTaken =>
        /\ CommitEffect
        /\ offset' = offset
        /\ Length' = Count(dist, start + (offset - (m \div 2)) + 1,
                            start + (offset - (m \div 2)) + 1 + offset)]_vars

C12_Witness ==
    /\ pc = "probe" /\ plan # <<>>
    /\ offset > 0
    /\ start = Last(plan)[2] + 1
    /\ rl = 0 /\ tr = 0

\* position (0-based) of an item of plan entry i in the descending listing
DescPos(i, item) == total[i] - 1 - item[2]

\* C13: the second pass appends exactly the first totalCount - QUERY_LIMIT
\* items of the descending listing: every item it appends is at a listing
\* position below totalCount - QUERY_LIMIT, and the pass ends with the item
\* at position totalCount - QUERY_LIMIT - 1.
C13_DescPrefixExact ==
    [][(fpc = "desc" /\ Len(repos') > Len(repos)) =>
        /\ \A x \in (Len(repos) + 1)..Len(repos') :
               DescPos(fi, repos'[x]) < total[fi] - QUERY_LIMIT
        /\ (fi' # fi =>
               DescPos(fi, Last(repos')) = total[fi] - QUERY_LIMIT - 1)]_vars

RECURSIVE IsPowerOfTwo(_)
IsPowerOfTwo(n) ==
    IF n <= 1 THEN n = 1 ELSE (n % 2 = 0 /\ IsPowerOfTwo(n \div 2))

\* C14: m is always a power of two with 1 <= m <= THRESHOLD and
\* offset >= m // 2 >= 0; offset and m grow only by a growth step
\* (offset += m; m *= 2, start and plan untouched), taken only when
\* m < THRESHOLD and the probe counted fewer than QUERY_LIMIT.
C14_MultiplierShape ==
    /\ [](/\ IsPowerOfTwo(m)
          /\ 1 <= m /\ m <= THRESHOLD
          /\ offset >= m \div 2 /\ m \div 2 >= 0)
    /\ [][(pc = "probe" /\ (offset' # offset \/ m' > m)) =>
            /\ m < THRESHOLD /\ Length < QUERY_LIMIT
            /\ offset' = offset + m /\ m' = m * 2
            /\ UNCHANGED <<start, plan, skipped, pc>>]_vars

C14_Witness ==
    /\ pc = "probe" /\ m = THRESHOLD /\ plan # <<>>
    /\ Length > 0

\* number of intervals of p that contain s
Holders(p, s) ==
    Cardinality({i \in 1..Len(p) : p[i][1] <= s /\ s <= p[i][2]})

\* C15: when make_plan has returned, every populated score at or above
\* the initial start is in exactly one interval of the plan, or in none
\* and reported as skipped; so no populated score is left above the last
\* interval.
C15_PopulatedScoresCovered ==
    pc = "done" =>
        \A s \in Scores :
            (s >= start_index /\ dist[s] > 0) =>
                \/ Holders(plan, s) = 1 /\ s \notin skipped
                \/ Holders(plan, s) = 0 /\ s \in skipped

C15_Witness ==
    /\ pc = "done" /\ plan # <<>>
    /\ Last(plan)[2] > NumScores
    /\ dist[NumScores] > 0 /\ dist[NumScores] <= 2 * QUERY_LIMIT
    /\ \E s \in Scores : s >= start_index /\ s \in skipped

\* C16: over finite data, with every probe succeeding after finitely many
\* failures, make_plan eventually returns; a failed probe never takes it
\* out of its loop.
C16_PlanningTerminates ==
    /\ <>(pc = "done")
    /\ [][ProbeFailed => pc' = "probe"]_vars

C16_Witness ==
    /\ pc = "probe" /\ rl + tr = MaxFailures /\ rl > 0 /\ tr > 0
    /\ m >= THRESHOLD /\ Length = 0
    /\ plan # <<>>

\* C17: if every listing eventually succeeds, fetch eventually returns,
\* having gone through every entry of the plan, whatever the plan and the
\* totalCount values reported.
C17_FetchReturns == <>(fpc = "returned" /\ fi = Len(fplan) + 1)

\* what fetch puts into repos for plan entry i when no request fails
EntryRepos(i) ==
    Items(i, "asc", 0, Avail(i) - 1) \o
    (IF total[i] > QUERY_LIMIT
     THEN Items(i, "desc", 0, Min(Avail(i) - 1, DescLast(i)))
     ELSE <<>>)

\* repos after the first n plan entries in a run without failures
RECURSIVE FailureFreeRepos(_)
FailureFreeRepos(n) ==
    IF n = 0 THEN <<>> ELSE FailureFreeRepos(n - 1) \o EntryRepos(n)

\* C18: a listing attempt that fails, also part-way through its pages,
\* leaves repos as it was before the attempt, so what fetch returns is what
\* a run without failures returns.
C18_FailuresLeaveNoTrace ==
    fpc = "returned" => repos = FailureFreeRepos(Len(fplan))

\* the last n items of repos after the step
TailAfter(n) == SubSeq(repos', Len(repos') - n + 1, Len(repos'))

\* C19: fetch goes through the plan one entry at a time, in order: the
\* descending listing of an entry starts only when its ascending listing
\* has just been collected in full and reported totalCount > QUERY_LIMIT
\* (and is otherwise only a retry for the same entry);
\* nothing of a later entry is in repos while an entry is in progress and
\* the entries' items lie in repos in plan order; repos only grows at its
\* end.
C19_OneEntryAtATime ==
    /\ [](fpc = "desc" => (fi <= Len(fplan) /\ total[fi] > QUERY_LIMIT))
    /\ [](\A x \in 1..Len(repos) :
             /\ repos[x][1] <= fi
             /\ (x < Len(repos) => repos[x][1] <= repos[x + 1][1]))
    /\ [][fpc' = "desc" =>
            /\ fi' = fi
            /\ fpc \in {"asc", "desc", "backoff"}
            /\ (fpc = "asc" =>
                   /\ Len(repos') >= Avail(fi)
                   /\ TailAfter(Avail(fi)) =
                          Items(fi, "asc", 0, Avail(fi) - 1))]_vars
    /\ [][fi' # fi =>
            /\ fi' = fi + 1
            /\ Cardinality({k \in DOMAIN repos' : repos'[k][1] = fi})
                   >= Avail(fi)
            /\ (fpc = "asc" => total[fi] <= QUERY_LIMIT)]_vars
    /\ [][/\ Len(repos') >= Len(repos)
           /\ SubSeq(repos', 1, Len(repos)) = repos]_vars

C19_Witness ==
    /\ fpc = "desc" /\ fi = 2 /\ page = 1
    /\ total[1] > QUERY_LIMIT
    /\ frl + ftr > 0

Width(iv) == iv[2] - iv[1]

\* C20: in the returned plan no interval is narrower (high - low) than
\* the one before it.
C20_WidthsNeverDecrease ==
    pc = "done" =>
        \A i \in 1..(Len(plan) - 1) : Width(plan[i]) <= Width(plan[i + 1])

C20_Witness ==
    /\ pc = "done" /\ Len(plan) >= 3
    /\ Width(plan[1]) = Width(plan[2])
    /\ Width(plan[2]) < Width(plan[3])

====
